---------------------------- MODULE Spec2Model ----------------------------
(***************************************************************************)
(* slip-diff: a file watcher that keeps the history of a file's contents.  *)
(*                                                                         *)
(* Two binaries are modelled.  src/bin/tabbed.rs (run_app) keeps an App    *)
(* {versions, index} and lets the user browse it with the Left/Right keys; *)
(* src/main.rs (watch) keeps a Vec<String> and shows each new version      *)
(* against the previous one with the external program `delta`.  The        *)
(* variable `bin` says which binary is running; the file system, the       *)
(* notify channel `rx` and the terminal are the environment.               *)
(***************************************************************************)
EXTENDS Integers, Sequences, FiniteSets, TLC

VARIABLES
    bin,        \* the binary that was started: "tabbed" or "main"
    pc,         \* position of the running binary in run_app / watch
    file,       \* what fs::read_to_string(path) would return now
    watching,   \* the watcher is registered on the path
    rx,         \* the mpsc channel: messages sent by the watcher, not yet received
    app,        \* tabbed.rs: App {versions, index}
    key,        \* tabbed.rs: the terminal event last returned by event::read()
    versions,   \* main.rs: the local Vec<String> of watch
    diffs,      \* main.rs: the (old, new) pairs print_diff_delta has displayed
    held,       \* history variable: the successive contents of the file since the seed
    held0,      \* history variable: Len(held) when the watcher was registered
    old_lines,  \* main.rs: print_diff's argument old, as its lines
    new_lines,  \* main.rs: print_diff's argument new, as its lines
    printed     \* main.rs: the (sign, line) pairs print_diff has printed

vars == <<bin, pc, file, watching, rx, app, key, versions, diffs,
          held, held0, old_lines, new_lines, printed>>

\* The variables of print_diff, which neither run_app nor watch calls.
diffvars == <<old_lines, new_lines, printed>>

----------------------------------------------------------------------------
(* Bounds of the model. *)

\* Longest history the environment is allowed to provoke.
MaxVersions == 5

\* Most messages waiting in the channel (the real channel is unbounded).
MaxQueue == 2

\* Most waiting messages that are not data modifications.
MaxOther == 1

\* Width of usize in the model (64 on the usual targets); only its wrap-around
\* matters: usize::MAX is far above every history length.
UsizeBits == 6

----------------------------------------------------------------------------
(* Values. *)

\* The texts the file can hold.
Contents == {"a", "b"}

\* fs::read_to_string fails (file removed, unreadable, not UTF-8).
NoFile == "<unreadable>"

\* notify::EventKind, with Modify split by its ModifyKind.
EventKinds == {"ModifyData", "ModifyOther", "Any", "Access", "Create", "Remove", "Other"}

\* What the watcher sends: Ok(event) of some kind, or Err(error).
Messages == EventKinds \cup {"Err"}

\* What event::poll / event::read give the loop: a pressed key (Esc, Right,
\* Left, any other code), a key event that is not a press, an event that is
\* not a key, a failed read, or nothing within the timeout.
TermEvents == {"Esc", "Right", "Left", "OtherKey", "Release", "NotKey", "ReadErr", "None"}

UsizeModulus == 2 ^ UsizeBits

UsizeMax == UsizeModulus - 1

\* Wrapping usize arithmetic (what a build without overflow checks computes).
WrapAdd(x, y) == (x + y) % UsizeModulus

WrapSub(x, y) == (x - y) % UsizeModulus

\* The operation overflows (a build with overflow checks panics here).
AddOverflows(x, y) == x + y > UsizeMax

SubOverflows(x, y) == x - y < 0

Last(s) == s[Len(s)]

----------------------------------------------------------------------------
(* tabbed.rs: FileVersion and App. *)

\* FileVersion::new_at_now.  The field `at` is written here and read nowhere
\* in the program, so a version is its contents.
FileVersion_new_at_now(contents) == [contents |-> contents]

App_new == [versions |-> <<>>, index |-> 0]

\* App::next panics: `% (len - 1)` with len = 1 is a remainder by zero in
\* every build; with overflow checks (oc) `len - 1` and `index + 1` panic
\* when they overflow.
next_panics(a, oc) ==
    LET len == Len(a.versions) IN
    \/ oc /\ SubOverflows(len, 1)
    \/ oc /\ AddOverflows(a.index, 1)
    \/ WrapSub(len, 1) = 0

\* Variant of next that also drops the last version.
next_mut_truncate(a) ==
    LET len == Len(a.versions) IN
    [versions |-> SubSeq(a.versions, 1, len - 1),
     index |-> WrapAdd(a.index, 1) % WrapSub(len, 1)]

\* Variant of next that wraps at len instead of len - 1.
next_mut_len(a) ==
    LET len == Len(a.versions) IN
    [a EXCEPT !.index = WrapAdd(a.index, 1) % len]

\* App::next when it does not panic.
next(a) ==
    LET len == Len(a.versions) IN
    [a EXCEPT !.index = WrapAdd(a.index, 1) % WrapSub(len, 1)]

\* App::previous panics: only with overflow checks, on `len - 2` with len < 2
\* (`index -= 1` is guarded by index > 0).
previous_panics(a, oc) ==
    LET len == Len(a.versions) IN
    oc /\ a.index = 0 /\ SubOverflows(len, 2)

\* Variant of previous that wraps to len - 1 instead of len - 2.
previous_mut_last(a) ==
    LET len == Len(a.versions) IN
    IF a.index > 0
    THEN [a EXCEPT !.index = a.index - 1]
    ELSE [a EXCEPT !.index = WrapSub(len, 1)]

\* App::previous when it does not panic.
previous(a) ==
    LET len == Len(a.versions) IN
    IF a.index > 0
    THEN [a EXCEPT !.index = a.index - 1]
    ELSE [a EXCEPT !.index = WrapSub(len, 2)]

\* App::current_contents panics: versions[index] out of bounds.
current_contents_panics(a) == a.index >= Len(a.versions)

current_contents(a) == a.versions[a.index + 1].contents

\* App::next_contents panics: only with overflow checks, on `index + 1`.
next_contents_panics(a, oc) == oc /\ AddOverflows(a.index, 1)

\* App::next_contents, versions.get(index + 1): Option<String> as a set,
\* None = {} and Some(c) = {c}.
next_contents(a) ==
    LET i == WrapAdd(a.index, 1) IN
    IF i < Len(a.versions) THEN {a.versions[i + 1].contents} ELSE {}

\* Variant of push_version that moves the cursor to the new version.
push_version_mut_jump(a, version) ==
    [versions |-> Append(a.versions, version), index |-> Len(a.versions)]

\* Variant of push_version that inserts the new version in front.
push_version_mut_front(a, version) ==
    [a EXCEPT !.versions = <<version>> \o a.versions]

\* App::push_version.
push_version(a, version) == [a EXCEPT !.versions = Append(a.versions, version)]

\* App::push_contents (always Ok).
push_contents(a, contents) ==
    [a EXCEPT !.versions = Append(a.versions, FileVersion_new_at_now(contents))]

\* Variant of RunAppRecord without the comparison.
RunAppRecord_mut_always(a, contents) ==
    push_version(a, FileVersion_new_at_now(contents))

\* Variant of RunAppRecord with the comparison inverted.
RunAppRecord_mut_inverted(a, contents) ==
    LET prev == Last(a.versions)
        new == FileVersion_new_at_now(contents)
    IN  IF prev.contents = new.contents THEN push_version(a, new) ELSE a

\* Variant of RunAppRecord that compares with every stored version.
RunAppRecord_mut_any(a, contents) ==
    LET new == FileVersion_new_at_now(contents) IN
    IF \A i \in 1..Len(a.versions) : a.versions[i].contents # new.contents
    THEN push_version(a, new)
    ELSE a

\* run_app, the Modify(Data) arm after a successful read: the new content is
\* recorded unless it equals that of the last version.
RunAppRecord(a, contents) ==
    LET prev == Last(a.versions)
        new == FileVersion_new_at_now(contents)
    IN  IF prev.contents # new.contents THEN push_version(a, new) ELSE a

\* ui: what the frame shows; it panics when current_contents does.
ui_panics(a) == current_contents_panics(a)

ui(a) ==
    [tabs |-> Len(a.versions),
     select |-> a.index,
     original |-> current_contents(a),
     changed |-> IF next_contents(a) = {} THEN "Nothing"
                 ELSE CHOOSE c \in next_contents(a) : TRUE]

----------------------------------------------------------------------------
(* main.rs: watch keeps plain strings. *)

\* Variant of WatchRecord that puts the new version in front.
WatchRecord_mut_front(vs, contents) ==
    LET prev == Last(vs) IN
    IF prev # contents THEN <<contents>> \o vs ELSE vs

\* watch, the Modify(Data) arm after a successful read: push unless equal to
\* the last version.
WatchRecord(vs, contents) ==
    LET prev == Last(vs) IN
    IF prev # contents THEN Append(vs, contents) ELSE vs

----------------------------------------------------------------------------
(* main.rs: print_diff and the diff engine it calls.  A text is the        *)
(* sequence of its lines.                                                  *)

\* Most lines of a text given to print_diff.
MaxLines == 3

\* The lines a text is made of.
Lines == {"x", "y"}

\* The texts of at most MaxLines lines.
LineTexts == UNION {[1..n -> Lines] : n \in 0..MaxLines}

\* Length of a longest common subsequence of the line sequences o and n.
RECURSIVE LcsLen(_, _)
LcsLen(o, n) ==
    IF o = <<>> \/ n = <<>> THEN 0
    ELSE IF Head(o) = Head(n) THEN 1 + LcsLen(Tail(o), Tail(n))
    ELSE LET d == LcsLen(Tail(o), n)
             i == LcsLen(o, Tail(n))
         IN  IF d >= i THEN d ELSE i

\* The diff engine (TextDiff::from_lines, then ops and iter_changes): a
\* line-level script along a longest common subsequence, each line tagged
\* Equal, Delete or Insert; where both a deletion and an insertion keep the
\* script minimal the deletion comes first.
RECURSIVE compute(_, _)
compute(o, n) ==
    IF o = <<>> THEN [i \in 1..Len(n) |-> [tag |-> "Insert", value |-> n[i]]]
    ELSE IF n = <<>> THEN [i \in 1..Len(o) |-> [tag |-> "Delete", value |-> o[i]]]
    ELSE IF Head(o) = Head(n)
         THEN <<[tag |-> "Equal", value |-> Head(o)]>> \o compute(Tail(o), Tail(n))
    ELSE IF LcsLen(Tail(o), n) >= LcsLen(o, Tail(n))
         THEN <<[tag |-> "Delete", value |-> Head(o)]>> \o compute(Tail(o), n)
         ELSE <<[tag |-> "Insert", value |-> Head(n)]>> \o compute(o, Tail(n))

\* Variant of ChangeSign with the signs of Delete and Insert exchanged.
ChangeSign_mut_swapped(tag) ==
    CASE tag = "Delete" -> "+"
      [] tag = "Insert" -> "-"
      [] tag = "Equal" -> " "

\* print_diff: the sign printed before a change.
ChangeSign(tag) ==
    CASE tag = "Delete" -> "-"
      [] tag = "Insert" -> "+"
      [] tag = "Equal" -> " "

\* print_diff: the header with both texts, then one (sign, line) pair for
\* every change of every op of the diff, in order.
print_diff(o, n) ==
    LET diff == compute(o, n) IN
    [header |-> <<o, n>>,
     changes |-> [i \in 1..Len(diff) |-> <<ChangeSign(diff[i].tag), diff[i].value>>]]

\* Nothing printed yet.
NothingPrinted == [header |-> <<>>, changes |-> <<>>]

----------------------------------------------------------------------------
(* The state after the binary is started, before its first statement. *)

Init ==
    /\ bin \in {"tabbed", "main"}
    /\ pc = "start"
    /\ file \in Contents \cup {NoFile}
    /\ watching = FALSE
    /\ rx = <<>>
    /\ app = App_new
    /\ key = "None"
    /\ versions = <<>>
    /\ diffs = <<>>
    /\ held = <<>>
    /\ held0 = 0
    /\ old_lines = <<>>
    /\ new_lines = <<>>
    /\ printed = NothingPrinted

Running == pc \notin {"done", "err", "panic"}

\* The length of the history of the running binary.
HistoryLen == IF bin = "tabbed" THEN Len(app.versions) ELSE Len(versions)

\* Number of Modify(Data) messages waiting in the channel.
PendingData == Cardinality({i \in 1..Len(rx) : rx[i] = "ModifyData"})

\* The watcher sends msg, if it is registered.  The environment stops
\* provoking recordings once the history could reach MaxVersions, and lets
\* at most MaxOther other messages wait.
Send(msg) ==
    IF watching
    THEN /\ Len(rx) < MaxQueue
         /\ msg = "ModifyData" => HistoryLen + PendingData < MaxVersions
         /\ msg # "ModifyData" => Len(rx) - PendingData < MaxOther
         /\ rx' = Append(rx, msg)
    ELSE rx' = rx

\* The file takes the value c: once the seed is read, a readable content
\* that differs from the last one the file held is added to held.  The
\* environment changes the content at most MaxVersions - 1 times after the
\* seed.
Hold(c) ==
    IF held = <<>> \/ c = NoFile \/ c = Last(held)
    THEN held' = held
    ELSE Len(held) < MaxVersions /\ held' = Append(held, c)

----------------------------------------------------------------------------
(* The environment: the file system and the watcher thread. *)

\* Another process writes the file (cat_file.rs appends to it); the watcher
\* reports a data modification.
FileWrite ==
    /\ Running
    /\ \E c \in Contents : file' = c /\ Hold(c)
    /\ Send("ModifyData")
    /\ UNCHANGED <<bin, pc, watching, app, key, versions, diffs, held0, diffvars>>

\* The file becomes unreadable: removed, or overwritten with bytes that are
\* not UTF-8.
FileBreak ==
    /\ Running
    /\ file # NoFile
    /\ file' = NoFile /\ Hold(NoFile)
    /\ \E msg \in {"Remove", "ModifyData"} : Send(msg)
    /\ UNCHANGED <<bin, pc, watching, app, key, versions, diffs, held0, diffvars>>

\* The watcher reports something that did not change the content: an access,
\* a metadata change, a rescan, an error of its own.
WatcherReport ==
    /\ Running
    /\ watching
    /\ \E msg \in Messages : Send(msg)
    /\ UNCHANGED <<bin, pc, file, watching, app, key, versions, diffs, held, held0, diffvars>>

----------------------------------------------------------------------------
(* tabbed.rs: run_app. *)

\* let zero = fs::read_to_string(&path)?; app.push_contents(zero)?;
RunAppSeed ==
    /\ bin = "tabbed" /\ pc = "start"
    /\ IF file = NoFile
       THEN pc' = "err" /\ app' = app /\ held' = held
       ELSE pc' = "setup" /\ app' = push_contents(app, file) /\ held' = <<file>>
    /\ UNCHANGED <<bin, file, watching, rx, key, versions, diffs, held0, diffvars>>

\* RecommendedWatcher::new(..)?; watcher.watch(..)?;
RunAppWatch ==
    /\ bin = "tabbed" /\ pc = "setup"
    /\ \/ watching' = TRUE /\ pc' = "drain" /\ held0' = Len(held)
       \/ watching' = FALSE /\ pc' = "err" /\ held0' = held0
    /\ UNCHANGED <<bin, file, rx, app, key, versions, diffs, held, diffvars>>

\* Variant of RunAppRecv that goes on when the read fails.
RunAppRecv_mut_swallow ==
    /\ bin = "tabbed" /\ pc = "drain"
    /\ rx # <<>>
    /\ rx' = Tail(rx)
    /\ IF Head(rx) = "ModifyData" /\ file # NoFile
       THEN pc' = pc /\ app' = RunAppRecord(app, file)
       ELSE pc' = pc /\ app' = app
    /\ UNCHANGED <<bin, file, watching, key, versions, diffs, held, held0, diffvars>>

\* Variant of RunAppRecv that records on every Modify event.
RunAppRecv_mut_modify ==
    /\ bin = "tabbed" /\ pc = "drain"
    /\ rx # <<>>
    /\ rx' = Tail(rx)
    /\ IF Head(rx) \in {"ModifyData", "ModifyOther"}
       THEN IF file = NoFile
            THEN pc' = "err" /\ app' = app
            ELSE pc' = pc /\ app' = RunAppRecord(app, file)
       ELSE pc' = pc /\ app' = app
    /\ UNCHANGED <<bin, file, watching, key, versions, diffs, held, held0, diffvars>>

\* One turn of `while let Ok(res) = rx.try_recv()` with a message waiting.
RunAppRecv ==
    /\ bin = "tabbed" /\ pc = "drain"
    /\ rx # <<>>
    /\ rx' = Tail(rx)
    /\ IF Head(rx) = "ModifyData"
       THEN IF file = NoFile
            THEN pc' = "err" /\ app' = app
            ELSE pc' = pc /\ app' = RunAppRecord(app, file)
       ELSE pc' = pc /\ app' = app
    /\ UNCHANGED <<bin, file, watching, key, versions, diffs, held, held0, diffvars>>

\* try_recv finds the channel empty: the inner loop ends.  The key of the
\* previous turn of the outer loop is out of scope by now.
RunAppDrained ==
    /\ bin = "tabbed" /\ pc = "drain"
    /\ rx = <<>>
    /\ pc' = "draw"
    /\ key' = "None"
    /\ UNCHANGED <<bin, file, watching, rx, app, versions, diffs, held, held0, diffvars>>

\* terminal.draw(|f| ui(f, &app))?;
RunAppDraw ==
    /\ bin = "tabbed" /\ pc = "draw"
    /\ IF ui_panics(app)
       THEN pc' = "panic"
       ELSE pc' \in {"poll", "err"}
    /\ UNCHANGED <<bin, file, watching, rx, app, key, versions, diffs, held, held0, diffvars>>

\* event::poll(1us) and, when it says an event is there, event::read()?.
RunAppPoll ==
    /\ bin = "tabbed" /\ pc = "poll"
    /\ key' \in TermEvents
    /\ pc' = CASE key' = "None" -> "drain"
               [] key' = "ReadErr" -> "err"
               [] OTHER -> "key"
    /\ UNCHANGED <<bin, file, watching, rx, app, versions, diffs, held, held0, diffvars>>

\* match key.code { Esc => return Ok(()), Right => app.next(),
\*                  Left => app.previous(), _ => {} }
\* oc: the build has overflow checks (debug) or not (release).
RunAppKey ==
    /\ bin = "tabbed" /\ pc = "key"
    /\ \E oc \in BOOLEAN :
         CASE key = "Esc" -> pc' = "done" /\ app' = app
           [] key = "Right" ->
                IF next_panics(app, oc)
                THEN pc' = "panic" /\ app' = app
                ELSE pc' = "drain" /\ app' = next(app)
           [] key = "Left" ->
                IF previous_panics(app, oc)
                THEN pc' = "panic" /\ app' = app
                ELSE pc' = "drain" /\ app' = previous(app)
           [] OTHER -> pc' = "drain" /\ app' = app
    /\ UNCHANGED <<bin, file, watching, rx, key, versions, diffs, held, held0, diffvars>>

----------------------------------------------------------------------------
(* main.rs: watch. *)

\* let zero = fs::read_to_string(path)?; versions.push(zero);
WatchSeed ==
    /\ bin = "main" /\ pc = "start"
    /\ IF file = NoFile
       THEN pc' = "err" /\ versions' = versions /\ held' = held
       ELSE pc' = "setup" /\ versions' = Append(versions, file) /\ held' = <<file>>
    /\ UNCHANGED <<bin, file, watching, rx, app, key, diffs, held0, diffvars>>

\* RecommendedWatcher::new(..)?; watcher.watch(..)?;
WatchWatch ==
    /\ bin = "main" /\ pc = "setup"
    /\ \/ watching' = TRUE /\ pc' = "loop" /\ held0' = Len(held)
       \/ watching' = FALSE /\ pc' = "err" /\ held0' = held0
    /\ UNCHANGED <<bin, file, rx, app, key, versions, diffs, held, diffvars>>

\* One turn of `while let Ok(res) = rx.try_recv()` with a message waiting.
\* print_diff_delta unwraps the results of creating the temporary files and
\* of running `delta`: when one of them fails (delta_ok = FALSE) it panics.
WatchRecv ==
    /\ bin = "main" /\ pc = "loop"
    /\ rx # <<>>
    /\ rx' = Tail(rx)
    /\ IF Head(rx) = "ModifyData"
       THEN IF file = NoFile
            THEN pc' = "err" /\ UNCHANGED <<versions, diffs>>
            ELSE /\ versions' = WatchRecord(versions, file)
                 /\ IF versions' # versions
                    THEN LET len == Len(versions') IN
                         \E delta_ok \in BOOLEAN :
                            IF delta_ok
                            THEN /\ diffs' = Append(diffs, <<versions'[len - 1], versions'[len]>>)
                                 /\ pc' = pc
                            ELSE diffs' = diffs /\ pc' = "panic"
                    ELSE diffs' = diffs /\ pc' = pc
       ELSE pc' = pc /\ UNCHANGED <<versions, diffs>>
    /\ UNCHANGED <<bin, file, watching, app, key, held, held0, diffvars>>

\* try_recv finds the channel empty: the loop ends and watch returns Ok(()).
WatchEmpty ==
    /\ bin = "main" /\ pc = "loop"
    /\ rx = <<>>
    /\ pc' = "done"
    /\ UNCHANGED <<bin, file, watching, rx, app, key, versions, diffs, held, held0, diffvars>>

----------------------------------------------------------------------------

Next ==
    \/ FileWrite
    \/ FileBreak
    \/ WatcherReport
    \/ RunAppSeed
    \/ RunAppWatch
    \/ RunAppRecv
    \/ RunAppDrained
    \/ RunAppDraw
    \/ RunAppPoll
    \/ RunAppKey
    \/ WatchSeed
    \/ WatchWatch
    \/ WatchRecv
    \/ WatchEmpty

Spec == Init /\ [][Next]_vars

\* A step of the running binary.  Its one thread is never suspended for
\* ever: try_recv does not block and event::poll waits one microsecond.
ProgramStep ==
    \/ RunAppSeed \/ RunAppWatch \/ RunAppRecv \/ RunAppDrained
    \/ RunAppDraw \/ RunAppPoll \/ RunAppKey
    \/ WatchSeed \/ WatchWatch \/ WatchRecv \/ WatchEmpty

\* The binary keeps running; nothing is assumed of the environment.
FairSpec == Spec /\ WF_vars(ProgramStep)

----------------------------------------------------------------------------
(* print_diff on its own: neither binary calls it (its call in watch is    *)
(* commented out), so it is applied to every pair of texts.                *)

InitDiff ==
    /\ bin = "main"
    /\ pc = "start"
    /\ file = NoFile
    /\ watching = FALSE
    /\ rx = <<>>
    /\ app = App_new
    /\ key = "None"
    /\ versions = <<>>
    /\ diffs = <<>>
    /\ held = <<>>
    /\ held0 = 0
    /\ old_lines \in LineTexts
    /\ new_lines \in LineTexts
    /\ printed = NothingPrinted

\* print_diff(old, new).
PrintDiff ==
    /\ printed = NothingPrinted
    /\ printed' = print_diff(old_lines, new_lines)
    /\ UNCHANGED <<bin, pc, file, watching, rx, app, key, versions, diffs,
                   held, held0, old_lines, new_lines>>

NextDiff == PrintDiff

SpecDiff == InitDiff /\ [][NextDiff]_vars

----------------------------------------------------------------------------
(* The steps and the views of the state the properties speak about. *)

\* The history of the running binary, as the sequence of its contents.
History ==
    IF bin = "tabbed"
    THEN [i \in 1..Len(app.versions) |-> app.versions[i].contents]
    ELSE versions

\* The step is RunAppKey: the key read by event::read() is dispatched.
KeyStep == bin = "tabbed" /\ pc = "key" /\ pc' # "key"

\* The step receives a message from the channel (only RunAppRecv and
\* WatchRecv shorten rx).
RecvStep == pc \in {"drain", "loop"} /\ rx # <<>> /\ rx' = Tail(rx)

\* The step receives a data-modified notification.
RecvDataStep == RecvStep /\ Head(rx) = "ModifyData"

----------------------------------------------------------------------------
(* C1 (stated as claimed; the code violates it).  Once the history is      *)
(* seeded the cursor is a valid index into it: 0 <= index <= len - 1.      *)
(* In a build without overflow checks, Left on a one-entry history sets    *)
(* index to usize::MAX.                                                    *)
C1_CursorInBounds ==
    (bin = "tabbed" /\ Len(app.versions) >= 1)
        => app.index \in 0..(Len(app.versions) - 1)

(* C2 (stated as claimed; the code violates it).  Right or Left on a       *)
(* history of fewer than 2 entries is a no-op: App is unchanged and the    *)
(* program does not abort.  App::next panics on `% 0`; App::previous       *)
(* panics on `1 - 2` or wraps the index to usize::MAX.                     *)
C2_NavigationNoOp ==
    [][(KeyStep /\ key \in {"Right", "Left"} /\ Len(app.versions) < 2)
          => (app' = app /\ pc' # "panic")]_vars

(* C3.  In every reachable state of either binary no two adjacent entries  *)
(* of the history have the same contents.                                  *)
C3_NoAdjacentDuplicates ==
    \A i \in 1..(Len(History) - 1) : History[i] # History[i + 1]

\* A browsed history of three entries about to receive a notification whose
\* content equals its last entry.
C3_Witness ==
    /\ bin = "tabbed" /\ pc = "drain"
    /\ Len(app.versions) >= 3
    /\ key \in {"Right", "Left"}
    /\ rx # <<>> /\ Head(rx) = "ModifyData"
    /\ file = Last(History)

(* C4.  With a history seeded with a, receiving a data-modified            *)
(* notification while the file reads b appends exactly the entry b when    *)
(* a # b, and changes nothing of the store when a = b.                     *)
C4_SecondEntryIffDifferent ==
    [][(RecvDataStep /\ Len(History) = 1 /\ file # NoFile)
          => /\ History' = IF History[1] # file
                           THEN <<History[1], file>>
                           ELSE History
             /\ History[1] = file => UNCHANGED <<app, versions, diffs>>]_vars

\* The seed a followed by the different content b.
C4_Witness == bin = "tabbed" /\ History = <<"a", "b">> /\ app.index = 0

(* C5.  A data-modified notification is compared with the last entry only: *)
(* the content read is appended iff it differs from the last entry, also   *)
(* when it equals an earlier one (a, b, a gives 3 entries; a, b, b gives   *)
(* 2).                                                                     *)
C5_ComparedWithLastOnly ==
    [][(RecvDataStep /\ Len(History) >= 1 /\ file # NoFile)
          => History' = IF file # Last(History)
                        THEN Append(History, file)
                        ELSE History]_vars

\* a, b, a was recorded.
C5_Witness == bin = "tabbed" /\ History = <<"a", "b", "a">>

(* C6.  With len >= 2 entries and the cursor c in [0, len - 2], Right sets *)
(* the cursor to (c + 1) mod (len - 1): it stays in [0, len - 2], and with *)
(* len = 5 it goes 0, 1, 2, 3, 0.                                          *)
C6_AdvanceWraps ==
    [][(KeyStep /\ key = "Right" /\ Len(app.versions) >= 2
            /\ app.index <= Len(app.versions) - 2)
          => /\ pc' # "panic"
             /\ app'.index = (app.index + 1) % (Len(app.versions) - 1)
             /\ app'.index <= Len(app.versions) - 2
             /\ (Len(app.versions) = 5 /\ app.index = 3) => app'.index = 0]_vars

\* Right has just moved the cursor to 3, which needs 5 entries.
C6_Witness ==
    /\ bin = "tabbed" /\ pc = "drain" /\ key = "Right"
    /\ Len(app.versions) = 5 /\ app.index = 3

(* C7.  With len >= 2 entries and the cursor c in [0, len - 2], neither    *)
(* App::next nor App::previous panics, previous after next and next after  *)
(* previous give back c, and previous at 0 gives len - 2.                  *)
C7_RetreatInvertsAdvance ==
    (bin = "tabbed" /\ Len(app.versions) >= 2
        /\ app.index <= Len(app.versions) - 2)
        => /\ ~next_panics(app, TRUE) /\ ~previous_panics(app, TRUE)
           /\ ~previous_panics(next(app), TRUE) /\ ~next_panics(previous(app), TRUE)
           /\ previous(next(app)) = app
           /\ next(previous(app)) = app
           /\ app.index = 0 => previous(app).index = Len(app.versions) - 2

\* Left has just wrapped the cursor from 0 to len - 2 >= 1.
C7_Witness ==
    /\ bin = "tabbed" /\ pc = "drain" /\ key = "Left"
    /\ Len(app.versions) >= 3 /\ app.index = Len(app.versions) - 2

(* C8 (stated as claimed; the code violates it).  Whenever the history     *)
(* holds at least 2 entries the cursor is in [0, len - 2] and              *)
(* next_contents is the entry after the cursor, never None.  The index     *)
(* that Left wrapped to usize::MAX on a one-entry history (C2) is still    *)
(* there when a notification appends the second entry.                     *)
C8_PeekNextAlwaysSome ==
    (bin = "tabbed" /\ Len(app.versions) >= 2)
        => /\ app.index <= Len(app.versions) - 2
           /\ next_contents(app) = {app.versions[app.index + 2].contents}

(* C9.  Receiving a notification, whether it appends an entry or not,      *)
(* leaves the cursor where it is.                                          *)
C9_RecordKeepsCursor ==
    [][(bin = "tabbed" /\ RecvStep) => app'.index = app.index]_vars

\* The cursor is at k >= 1 and the history has grown past k + 2.
C9_Witness ==
    /\ bin = "tabbed" /\ pc = "drain"
    /\ app.index >= 1 /\ Len(app.versions) > app.index + 2

(* C10.  Right and Left leave the history as it is, and the history        *)
(* changes only in the seed and in the receipt of a data-modified          *)
(* notification.                                                           *)
C10_NavigationKeepsHistory ==
    [][/\ KeyStep => (app'.versions = app.versions /\ versions' = versions)
       /\ History' # History => (pc = "start" \/ RecvDataStep)]_vars

\* A key has moved the cursor inside a history of three entries or more.
C10_Witness ==
    /\ bin = "tabbed" /\ pc = "drain" /\ key \in {"Right", "Left"}
    /\ Len(app.versions) >= 3 /\ app.index >= 1

----------------------------------------------------------------------------
(* Views of the state for the properties below. *)

\* s is a prefix of t.
IsPrefix(s, t) == Len(s) <= Len(t) /\ SubSeq(t, 1, Len(s)) = s

\* s is a subsequence of t: t with some elements left out, order kept.
RECURSIVE IsSubseq(_, _)
IsSubseq(s, t) ==
    IF s = <<>> THEN TRUE
    ELSE IF t = <<>> THEN FALSE
    ELSE IF Head(s) = Head(t) THEN IsSubseq(Tail(s), Tail(t))
    ELSE IsSubseq(s, Tail(t))

\* The watcher is registered, the binary runs, the file is readable and
\* every notification sent so far has been received.
Drained == Running /\ watching /\ rx = <<>> /\ file # NoFile

\* The lines of the printed changes whose sign is in signs.
KeptLines(changes, signs) ==
    LET Kept(ch) == ch[1] \in signs
        kept == SelectSeq(changes, Kept)
    IN  [i \in 1..Len(kept) |-> kept[i][2]]

(* C11.  The history is append-only: in every step the history before is   *)
(* a prefix of the history after, which is at most one entry longer.       *)
C11_AppendOnly ==
    [][IsPrefix(History, History') /\ Len(History') <= Len(History) + 1]_vars

\* watch has appended two versions to the seed.
C11_Witness == bin = "main" /\ Len(versions) >= 3 /\ Len(diffs) >= 2

(* C12.  When the read of the file fails, at the seed or after a           *)
(* data-modified notification, the loop returns the error and the history  *)
(* and the cursor stay as they were.                                       *)
C12_ReadFailureReturned ==
    [][/\ (RecvDataStep /\ file = NoFile)
            => (pc' = "err" /\ app' = app /\ versions' = versions /\ diffs' = diffs)
       /\ (pc = "start" /\ pc' # "start" /\ file = NoFile)
            => (pc' = "err" /\ app' = app /\ versions' = versions)]_vars

\* watch returned the error of a read that failed after a version was
\* recorded (its other errors come with at most the seed).
C12_Witness ==
    bin = "main" /\ pc = "err" /\ file = NoFile /\ Len(versions) >= 2

(* C13.  A notification that is not data-modified, or an error of the      *)
(* watcher, changes neither the history nor the cursor and reads no file:  *)
(* the loop goes on even when the file is unreadable.                      *)
C13_OnlyDataModifiedRecords ==
    [][(RecvStep /\ Head(rx) # "ModifyData")
          => (pc' = pc /\ app' = app /\ versions' = versions /\ diffs' = diffs)]_vars

\* The notification of the removal of the file is about to be received by
\* run_app, with two versions recorded.
C13_Witness ==
    /\ bin = "tabbed" /\ pc = "drain"
    /\ rx # <<>> /\ Head(rx) = "Remove"
    /\ file = NoFile /\ Len(app.versions) >= 2

(* C14 (stated as claimed; the code violates it).  Every change of the     *)
(* content of the file after startup gives exactly one entry: when nothing *)
(* changed between the seed and the registration of the watcher and every  *)
(* notification has been received, the history is the sequence of contents *)
(* the file held.  The content is read when the notification is received,  *)
(* so a content overwritten before that is never seen.                     *)
C14_EveryChangeRecorded ==
    (Drained /\ held0 = 1) => History = held

(* C15.  The recorded contents are, in order, contents the file held: the  *)
(* history is a subsequence of the sequence of contents of the file.       *)
C15_HistoryInFileOrder == IsSubseq(History, held)

\* Three versions recorded, a content of the file missed, nothing pending.
C15_Witness ==
    /\ bin = "tabbed" /\ rx = <<>>
    /\ Len(History) >= 3 /\ Len(held) > Len(History)

(* C16 (stated as claimed; the code violates it).  In run_app the drain of *)
(* the channel always lets the input be polled: whenever the loop is       *)
(* draining it eventually leaves the drain.  While notifications keep      *)
(* coming, `while let Ok(..) = rx.try_recv()` never ends.                  *)
C16_DrainLetsInputThrough ==
    (bin = "tabbed" /\ pc = "drain") ~> (pc # "drain")

(* C17 (stated as claimed; the code violates it).  A failure of the        *)
(* external diff display does not end watch.  print_diff_delta unwraps     *)
(* the results of NamedTempFile::new and Command::output and panics.       *)
C17_DeltaFailureTolerated == ~(bin = "main" /\ pc = "panic")

(* C18.  Of what print_diff prints for old and new, the lines signed " "   *)
(* or "+" are exactly new and the lines signed " " or "-" are exactly old. *)
C18_DiffRoundTrip ==
    printed # NothingPrinted
        => /\ printed.header = <<old_lines, new_lines>>
           /\ KeptLines(printed.changes, {" ", "+"}) = new_lines
           /\ KeptLines(printed.changes, {" ", "-"}) = old_lines

\* A printed diff with an unchanged, a deleted and an inserted line.
C18_Witness ==
    \E i, j, k \in 1..Len(printed.changes) :
        /\ printed.changes[i][1] = " "
        /\ printed.changes[j][1] = "-"
        /\ printed.changes[k][1] = "+"

(* C19 (stated as claimed; the code violates it).  The loop ends cleanly   *)
(* only on the quit key: an empty channel does not end it.  watch is       *)
(* `while let Ok(res) = rx.try_recv()`, which ends as soon as the channel  *)
(* is empty, and then returns Ok(()).                                      *)
C19_OnlyQuitEndsSession ==
    pc = "done" => (bin = "tabbed" /\ key = "Esc")

(* C20 (stated as claimed; the code violates it).  watch has displayed     *)
(* exactly one diff for every appended version, between the entry before   *)
(* it and itself, in the order of the history.  When print_diff_delta      *)
(* panics (C17) the version is appended and no diff is displayed.          *)
C20_DiffPerAppendedVersion ==
    bin = "main"
        => diffs = [i \in 1..(Len(versions) - 1) |-> <<versions[i], versions[i + 1]>>]

=============================================================================
